---- MODULE Spec2Model ----
(***************************************************************************)
(* Keyword translation of pgmpl (src/pgmpl/translate.py): Matplotlib style *)
(* plot keywords are turned into pyqtgraph keywords (pen, symbol,          *)
(* symbolPen, symbolBrush, symbolSize, name, label).                       *)
(*                                                                         *)
(* Python values are records of one shape [t, n, s, c]:                    *)
(*   t  the kind of value,                                                 *)
(*   n  a number, counted in units of 1/Scale (so 1/2 is Scale \div 2),    *)
(*   s  a string,                                                          *)
(*   c  a tuple of numbers (colour channels).                              *)
(* A keyword dictionary is a function from a finite set of key strings to  *)
(* such values.                                                            *)
(***************************************************************************)
EXTENDS Integers, Sequences, FiniteSets, TLC

VARIABLES
    penkw,      \* the dict bound to setup_pen_kw's default argument penkw={}
    rcParams,   \* matplotlib.rcParams, the global style parameters
    last        \* the call in progress or just returned, with its arguments and results

vars == <<penkw, rcParams, last>>

\* ------------------------------------------------------------------ bounds

\* Numbers are held as integers counting units of 1/Scale.
Scale == 4
\* The largest number of keywords in one call of the translation pipeline.
MaxKeys == 2
\* The largest number of keywords in one call of dealias.
MaxAliasKeys == 2

\* ------------------------------------------------------------------ values

NoneV == [t |-> "None", n |-> 0, s |-> "", c |-> <<>>]
Num(x) == [t |-> "num", n |-> x, s |-> "", c |-> <<>>]
\* The whole number k.
Whole(k) == Num(k * Scale)
Str(x) == [t |-> "str", n |-> 0, s |-> x, c |-> <<>>]
\* A Python tuple of 3 or 4 colour channels, each in [0, 1].
Tup(ch) == [t |-> "tuple", n |-> 0, s |-> "", c |-> ch]
\* A colour description on the 0..255 scale (what color_translator returns).
Rgba(ch) == [t |-> "rgba", n |-> 0, s |-> "", c |-> ch]
\* A mutable nested value (a list); n is the identity of the object.
ListV(id) == [t |-> "list", n |-> id, s |-> "[1, 2]", c |-> <<>>]

EmptyKw == [k \in {} |-> NoneV]

Has(m, k) == k \in DOMAIN m
Get(m, k, d) == IF k \in DOMAIN m THEN m[k] ELSE d
\* m.pop(k, None), for its effect on m
Pop(m, k) == [x \in DOMAIN m \ {k} |-> m[x]]
\* m[k] = v
Put(m, k, v) == [x \in DOMAIN m \cup {k} |-> IF x = k THEN v ELSE m[x]]
\* m.update(n)
Update(m, n) == [x \in DOMAIN m \cup DOMAIN n |-> IF x \in DOMAIN n THEN n[x] ELSE m[x]]

\* ------------------------------------------------------- color_translator

Full == 255

\* matplotlib.colors.to_rgba on the colours used here: a single-letter colour
\* name, or a tuple of 3 (opaque) or 4 channels.
to_rgba(v) ==
    IF v.t = "tuple"
    THEN (IF Len(v.c) = 3 THEN Append(v.c, Scale) ELSE v.c)
    ELSE CASE v.s = "r" -> <<Scale, 0, 0, Scale>>
           [] v.s = "b" -> <<0, 0, Scale, Scale>>
           [] OTHER     -> <<0, 0, 0, Scale>>       \* 'k'

\* int(round(x)) of x = num / den: to the nearest whole number, a tie going to
\* the even one.
IntRound(num, den) ==
    LET q == num \div den
        r == num % den
    IN  IF 2 * r < den THEN q
        ELSE IF 2 * r > den THEN q + 1
        ELSE IF q % 2 = 0 THEN q ELSE q + 1

IsSet(kw, k) == k \in DOMAIN kw /\ kw[k] # NoneV

\* color_translator with the test for alpha ahead of the test for '' and ' '.
color_translator_alpha_first(kw) ==
    IF IsSet(kw, "color")
    THEN IF IsSet(kw, "alpha") /\ kw["color"] \notin {Str(""), Str(" ")}
         THEN Rgba(<<to_rgba(kw["color"])[1] * Full, to_rgba(kw["color"])[2] * Full,
                     to_rgba(kw["color"])[3] * Full, kw["alpha"].n * Full>>)
         ELSE IF IsSet(kw, "alpha")
              THEN Rgba(<<0, 0, 0, kw["alpha"].n * Full>>)
              ELSE IF kw["color"] \in {Str(""), Str(" ")}
                   THEN Rgba(<<0, 0, 0, 0>>)
                   ELSE Rgba([i \in 1..4 |-> to_rgba(kw["color"])[i] * Full])
    ELSE IF IsSet(kw, "alpha")
         THEN Rgba(<<0, 0, 0, Scale * IntRound(kw["alpha"].n * Full, Scale)>>)
         ELSE NoneV

color_translator(kw) ==
    IF IsSet(kw, "color")
    THEN IF kw["color"] \in {Str(""), Str(" ")}
         THEN Rgba(<<0, 0, 0, 0>>)
         ELSE LET ch == to_rgba(kw["color"])
              IN  IF IsSet(kw, "alpha")
                  THEN Rgba(<<ch[1] * Full, ch[2] * Full, ch[3] * Full, kw["alpha"].n * Full>>)
                  ELSE Rgba(<<ch[1] * Full, ch[2] * Full, ch[3] * Full, ch[4] * Full>>)
    ELSE IF IsSet(kw, "alpha")
         THEN Rgba(<<0, 0, 0, Scale * IntRound(kw["alpha"].n * Full, Scale)>>)
         ELSE NoneV

\* ---------------------------------------------------------------- dealias

\* The marker dealias pops an absent alias as.
missing_value_mark == Str("This value is missing; it is not just None.")

\* Primary keyword and its aliases, the first alias found being the one used.
alias_lists ==
    << <<"linewidth", <<"lw">> >>,
       <<"linestyle", <<"ls">> >>,
       <<"markeredgewith", <<"mew">> >>,
       <<"markeredgecolor", <<"mec">> >>,
       <<"markerfacecolor", <<"mfc">> >>,
       <<"markersize", <<"ms">> >>,
       <<"markerfacecoloralt", <<"mfcalt">> >>,
       <<"antialiased", <<"aa">> >>,
       <<"color", <<"c">> >>,
       <<"edgecolor", <<"ec">> >>,
       <<"facecolor", <<"fc">> >>,
       <<"verticalalignment", <<"va">> >>,
       <<"horizontalalignment", <<"ha">> >> >>

SeqRange(q) == {q[i] : i \in 1..Len(q)}

\* dealias_step with the alias assigned whether or not the primary is there.
dealias_step_alias_wins(kws, primary, aliases) ==
    LET there == {i \in 1..Len(aliases) : aliases[i] \in DOMAIN kws}
        popped == [x \in DOMAIN kws \ SeqRange(aliases) |-> kws[x]]
    IN  IF there # {}
        THEN Put(popped, primary, kws[aliases[CHOOSE i \in there : \A j \in there : i <= j]])
        ELSE popped

\* One turn of dealias's loop: every alias is popped; the primary is assigned
\* from the first alias that was there when the primary itself is missing.
dealias_step(kws, primary, aliases) ==
    LET aliasv == [i \in 1..Len(aliases) |-> Get(kws, aliases[i], missing_value_mark)]
        not_missing == {i \in 1..Len(aliases) : aliasv[i] # missing_value_mark}
        popped == [x \in DOMAIN kws \ SeqRange(aliases) |-> kws[x]]
    IN  IF primary \notin DOMAIN popped /\ not_missing # {}
        THEN Put(popped, primary, aliasv[CHOOSE i \in not_missing : \A j \in not_missing : i <= j])
        ELSE popped

RECURSIVE dealias_loop(_, _)
dealias_loop(kws, i) ==
    IF i > Len(alias_lists) THEN kws
    ELSE dealias_loop(dealias_step(kws, alias_lists[i][1], alias_lists[i][2]), i + 1)

dealias(kws) == dealias_loop(kws, 1)

\* ------------------------------------------------- defaults_from_rcparams

simples ==
    <<"lines.linewidth", "lines.marker", "lines.markeredgewidth", "lines.markersize",
      "lines.linestyle">>

\* '.'.join(simple.split('.')[1:])
param_key(simple) ==
    CASE simple = "lines.linewidth" -> "linewidth"
      [] simple = "lines.marker" -> "marker"
      [] simple = "lines.markeredgewidth" -> "markeredgewidth"
      [] simple = "lines.markersize" -> "markersize"
      [] OTHER -> "linestyle"

\* The loop over params from its i-th entry on. plotkw is filled in place, so
\* what was assigned before rcParams[param] raises KeyError stays assigned.
RECURSIVE defaults_loop(_, _, _)
defaults_loop(plotkw, rc, i) ==
    IF i > Len(simples) THEN [raised |-> FALSE, plotkw |-> plotkw]
    ELSE IF param_key(simples[i]) \in DOMAIN plotkw
         THEN defaults_loop(plotkw, rc, i + 1)
         ELSE IF simples[i] \in DOMAIN rc
              THEN defaults_loop(Put(plotkw, param_key(simples[i]), rc[simples[i]]), rc, i + 1)
              ELSE [raised |-> TRUE, plotkw |-> plotkw]

defaults_from_rcparams(plotkw, rc) == defaults_loop(plotkw, rc, 1)

\* -------------------------------------------------------- style_translator

style_translator(kw) ==
    IF "linestyle" \in DOMAIN kw
    THEN LET ls == kw["linestyle"]
         IN  CASE ls = Str("-") -> Str("SolidLine")
               [] ls = Str("--") -> Str("DashLine")
               [] ls = Str("-.") -> Str("DashDotLine")
               [] ls = Str(":") -> Str("DotLine")
               [] ls = Str(" ") -> Str("NoPen")
               [] ls = Str("-..") -> Str("DashDotDotLine")
               [] OTHER -> NoneV
    ELSE NoneV

\* ------------------------------------------------------- symbol_translator

SameSymbol == {".", ",", "x", "+", "o", "d", "s", "p", "h", "_", "|"}

\* A list is unhashable: looking it up as a key of the dict pyqt_symbol
\* raises TypeError. (The calls of plotkw_translator and symbol_edge_setup
\* below pass markers that can be hashed.)
symbol_translator_raises(kw) == Get(kw, "marker", NoneV).t = "list"

\* The lookup with None, not 'o', as the default of .get.
symbol_translator_unknown_none(kw) ==
    LET marker == Get(kw, "marker", NoneV)
    IN  IF marker.t = "str" /\ marker.s \in SameSymbol THEN marker
        ELSE CASE marker = Str("*") -> Str("star")
               [] marker = Str("v") -> Str("t")
               [] marker = Str("^") -> Str("t1")
               [] marker = Str(">") -> Str("t2")
               [] marker = Str("<") -> Str("t3")
               [] OTHER -> NoneV

\* The result of the lookup, for a marker that can be looked up.
symbol_translator(kw) ==
    LET marker == Get(kw, "marker", NoneV)
    IN  IF marker \in {NoneV, Str("None"), Str("none")} THEN NoneV
        ELSE IF marker.t = "str" /\ marker.s \in SameSymbol THEN marker
        ELSE CASE marker = Str("*") -> Str("star")
               [] marker = Str("v") -> Str("t")
               [] marker = Str("^") -> Str("t1")
               [] marker = Str(">") -> Str("t2")
               [] marker = Str("<") -> Str("t3")
               [] OTHER -> Str("o")

\* ------------------------------------------------------------ setup_pen_kw

\* pg.mkPen(**kw): the pen holds the width, colour and style it was made with
\* (n = -1, c = <<>>, s = "": not given).
mkPen(kw) ==
    [t |-> "pen",
     n |-> IF "width" \in DOMAIN kw THEN kw["width"].n ELSE -1,
     s |-> IF "style" \in DOMAIN kw THEN kw["style"].s ELSE "",
     c |-> IF "color" \in DOMAIN kw THEN kw["color"].c ELSE <<>>]

\* pg.mkBrush(color=...)
mkBrush(kw) == [t |-> "brush", n |-> 0, s |-> "", c |-> kw["color"].c]

\* setup_pen_kw(penkw=pk, **kw): pk is written in place; the result is the pen
\* and the dict pk as the call leaves it.
setup_pen_kw(pk, kw) ==
    LET pk1 == IF IsSet(kw, "linewidth") THEN Put(pk, "width", kw["linewidth"]) ELSE pk
        newc == color_translator(kw)
        pk2 == IF newc # NoneV THEN Put(pk1, "color", newc) ELSE pk1
        news == style_translator(kw)
        pk3 == IF news # NoneV THEN Put(pk2, "style", news) ELSE pk2
    IN  [pen |-> IF DOMAIN pk3 # {} THEN mkPen(pk3) ELSE NoneV, penkw |-> pk3]

\* ------------------------------------------------------- symbol_edge_setup

StrokeMarkers == {Str("x"), Str("+"), Str("."), Str(","), Str("|"), Str("_")}

\* drop_symbol_size leaving the size in.
keep_symbol_size(pgkw) == pgkw

\* pgkw.pop('symbolSize', None): the size is not used when there is no symbol.
drop_symbol_size(pgkw) == Pop(pgkw, "symbolSize")

\* symbol_edge_setup(pgkw, plotkw) with dflt the dict bound to setup_pen_kw's
\* default argument: pgkw and plotkw are written in place.
symbol_edge_setup(pgkw, plotkw, dflt) ==
    LET default_mec == IF Get(plotkw, "marker", Str("")) \in StrokeMarkers
                       THEN Get(plotkw, "color", NoneV) ELSE NoneV
        mec == Get(plotkw, "markeredgecolor", default_mec)
        mew == Get(Pop(plotkw, "markeredgecolor"), "markeredgewidth", NoneV)
        plotkw1 == Pop(Pop(plotkw, "markeredgecolor"), "markeredgewidth")
        symbol == symbol_translator(plotkw1)
    IN  IF symbol # NoneV
        THEN LET pgkw1 == Put(pgkw, "symbol", symbol)
                 e1 == IF mec # NoneV THEN Put(EmptyKw, "color", mec) ELSE EmptyKw
                 e2 == IF mew # NoneV THEN Put(e1, "width", mew) ELSE e1
                 e3 == IF "alpha" \in DOMAIN plotkw1 THEN Put(e2, "alpha", plotkw1["alpha"]) ELSE e2
                 plotkw2 == Pop(plotkw1, "alpha")
                 sp == setup_pen_kw(dflt, e3)
                 pgkw2 == IF DOMAIN e3 # {} THEN Put(pgkw1, "symbolPen", sp.pen) ELSE pgkw1
                 dflt1 == IF DOMAIN e3 # {} THEN sp.penkw ELSE dflt
                 brush_color == color_translator(plotkw2)
                 pgkw3 == IF brush_color # NoneV
                          THEN Put(pgkw2, "symbolBrush", mkBrush(Put(EmptyKw, "color", brush_color)))
                          ELSE pgkw2
             IN  [pgkw |-> pgkw3, plotkw |-> plotkw2, penkw |-> dflt1]
        ELSE [pgkw |-> drop_symbol_size(pgkw), plotkw |-> plotkw1, penkw |-> dflt]

\* ------------------------------------------------------- plotkw_translator

\* copy.deepcopy: equal values, every mutable object a new one.
deepcopy(kw) ==
    [k \in DOMAIN kw |-> IF kw[k].t = "list" THEN [kw[k] EXCEPT !.n = @ + 1] ELSE kw[k]]

\* working_dict when the pipeline writes to the dict it was called with.
callers_dict == "caller"

\* The dict the pipeline writes to: the one dealias's ** builds from the deep
\* copy, not the caller's.
working_dict == "kws"

direct_translations ==
    << <<"markersize", "symbolSize">>, <<"pg_label", "label">>, <<"label", "name">> >>

RECURSIVE direct_loop(_, _, _)
direct_loop(pgkw, plotkw, i) ==
    IF i > Len(direct_translations) THEN [pgkw |-> pgkw, plotkw |-> plotkw]
    ELSE LET direct == direct_translations[i][1]
         IN  IF direct \in DOMAIN plotkw
             THEN direct_loop(Put(pgkw, direct_translations[i][2], plotkw[direct]),
                              Pop(plotkw, direct), i + 1)
             ELSE direct_loop(pgkw, plotkw, i + 1)

\* late_pops without alpha, which symbol_edge_setup pops when there is a symbol.
late_pops_no_alpha == {"color", "linewidth", "marker", "linestyle"}

late_pops == {"color", "alpha", "linewidth", "marker", "linestyle"}

\* plotkw_translator(**kw) under the global rc, with dflt the dict bound to
\* setup_pen_kw's default argument.
plotkw_translator(kw, rc, dflt) ==
    LET filled == defaults_from_rcparams(dealias(deepcopy(kw)), rc)
        pen == setup_pen_kw(dflt, filled.plotkw)
        pgkw0 == IF pen.pen # NoneV THEN Put(EmptyKw, "pen", pen.pen) ELSE EmptyKw
        moved == direct_loop(pgkw0, filled.plotkw, 1)
        edge == symbol_edge_setup(moved.pgkw, moved.plotkw, pen.penkw)
        rest == [k \in DOMAIN edge.plotkw \ late_pops |-> edge.plotkw[k]]
    IN  IF filled.raised
        THEN [raised |-> TRUE, out |-> EmptyKw, penkw |-> dflt]
        ELSE [raised |-> FALSE, out |-> Update(rest, edge.pgkw), penkw |-> edge.penkw]

\* ----------------------------------------------------------------- state

Idle == [op |-> "idle", kw |-> EmptyKw, pgkw |-> EmptyKw, out |-> EmptyKw, val |-> NoneV,
         before |-> EmptyKw, caller |-> EmptyKw, retobj |-> "", raised |-> FALSE]

rcDefault ==
    [x \in {"lines.linewidth", "lines.marker", "lines.markeredgewidth",
            "lines.markersize", "lines.linestyle"} |->
        CASE x = "lines.linewidth" -> Num((3 * Scale) \div 2)
          [] x = "lines.marker" -> Str("None")
          [] x = "lines.markeredgewidth" -> Whole(1)
          [] x = "lines.markersize" -> Whole(6)
          [] OTHER -> Str("-")]

\* ------------------------------------------------------ the calls made

\* Every dict of at most n of the keys, each key with one of its values.
RECURSIVE KwUpTo(_, _, _)
KwUpTo(keys, values(_), n) ==
    IF n = 0 \/ keys = {} THEN {EmptyKw}
    ELSE LET k == CHOOSE x \in keys : TRUE
         IN  KwUpTo(keys \ {k}, values, n)
                 \cup {Put(m, k, v) : m \in KwUpTo(keys \ {k}, values, n - 1), v \in values(k)}

PlotValues(k) ==
    CASE k = "color" -> {Str("r"), Tup(<<0, 0, Scale, Scale \div 2>>)}
      [] k = "alpha" -> {Num(Scale \div 2), NoneV}
      [] k = "linewidth" -> {Whole(2), NoneV}
      [] k = "linestyle" -> {Str("--"), Str("zz")}
      [] k = "marker" -> {Str("o"), Str("x"), Str("None"), Str("none"), NoneV}
      [] k = "markersize" -> {Whole(8)}
      [] k = "markeredgecolor" -> {Str("k")}
      [] k = "markeredgewidth" -> {Whole(3)}
      [] k = "label" -> {Str("L")}
      [] k = "pg_label" -> {Str("P")}
      [] k = "lw" -> {Whole(5)}
      [] k = "ms" -> {Whole(9)}
      [] k = "mew" -> {Whole(4)}
      [] k = "c" -> {Str("b")}
      [] k = "ls" -> {Str(":")}
      [] k = "mec" -> {Str("r")}
      [] k = "zorder" -> {Whole(1)}
      [] k = "dashes" -> {ListV(0)}
      [] k = "symbolSize" -> {Whole(7)}
      [] k = "name" -> {Str("N")}
      [] k = "symbol" -> {Str("s")}
      [] OTHER -> {Str("w")}                   \* pen

PlotKeys ==
    {"color", "alpha", "linewidth", "linestyle", "marker", "markersize", "markeredgecolor",
     "markeredgewidth", "label", "pg_label", "lw", "ms", "mew", "c", "ls", "mec", "zorder",
     "dashes",
     "symbolSize", "name", "symbol", "pen"}

TranslatorArgs == KwUpTo(PlotKeys, PlotValues, MaxKeys)

PenArgs == KwUpTo({"color", "alpha", "linewidth", "linestyle"}, PlotValues, MaxKeys)

EdgeArgs ==
    KwUpTo({"color", "alpha", "marker", "markeredgecolor", "markeredgewidth"}, PlotValues,
           MaxKeys)
EdgePgkw == {EmptyKw, Put(EmptyKw, "symbolSize", Whole(8))}

\* The values the user gives the global style parameters.
RcValues(param) ==
    IF param = "lines.marker" THEN {Str("None"), Str("o"), Str("x")} ELSE {rcDefault[param]}

Init ==
    /\ penkw = EmptyKw
    /\ rcParams = rcDefault
    /\ last = Idle

\* plotkw_translator(**kw), kw being the caller's dict
CallPlotkwTranslator ==
    /\ last.op = "idle"
    /\ \E kw \in TranslatorArgs :
        \E r \in {plotkw_translator(kw, rcParams, penkw)} :
            /\ last' = [Idle EXCEPT !.op = "plotkw_translator", !.kw = kw, !.out = r.out,
                                    !.before = penkw, !.raised = r.raised,
                                    !.caller = IF working_dict = "caller" THEN r.out ELSE kw,
                                    !.retobj = working_dict]
            /\ penkw' = r.penkw
    /\ UNCHANGED rcParams

\* setup_pen_kw(**kw): penkw is not passed
CallSetupPenKw ==
    /\ last.op = "idle"
    /\ \E kw \in PenArgs :
        \E r \in {setup_pen_kw(penkw, kw)} :
            /\ last' = [Idle EXCEPT !.op = "setup_pen_kw", !.kw = kw, !.val = r.pen,
                                    !.before = penkw, !.caller = kw]
            /\ penkw' = r.penkw
    /\ UNCHANGED rcParams

\* symbol_edge_setup(pgkw, plotkw): both dicts are the caller's and are written to
CallSymbolEdgeSetup ==
    /\ last.op = "idle"
    /\ \E pgkw \in EdgePgkw, kw \in EdgeArgs :
        \E r \in {symbol_edge_setup(pgkw, kw, penkw)} :
            /\ last' = [Idle EXCEPT !.op = "symbol_edge_setup", !.kw = kw, !.pgkw = pgkw,
                                    !.out = r.pgkw, !.before = penkw, !.caller = r.plotkw,
                                    !.retobj = "caller"]
            /\ penkw' = r.penkw
    /\ UNCHANGED rcParams

\* rcParams[param] = v
SetRcParams ==
    /\ last.op = "idle"
    /\ \E param \in DOMAIN rcParams : \E v \in RcValues(param) :
        /\ v # rcParams[param]
        /\ rcParams' = [rcParams EXCEPT ![param] = v]
    /\ UNCHANGED <<penkw, last>>

\* The caller takes the result; the next call may follow.
Return ==
    /\ last.op \in {"plotkw_translator", "setup_pen_kw", "symbol_edge_setup"}
    /\ last' = Idle
    /\ UNCHANGED <<penkw, rcParams>>

Next ==
    \/ CallPlotkwTranslator
    \/ CallSetupPenKw
    \/ CallSymbolEdgeSetup
    \/ SetRcParams
    \/ Return

Spec == Init /\ [][Next]_vars

\* ------------------------------------------------- color_translator alone

ColorValues ==
    {NoneV, Str(""), Str(" "), Str("r"), Str("k"), Tup(<<0, 0, Scale>>),
     Tup(<<0, Scale, 0, Scale \div 2>>), Tup(<<Scale, Scale, 0, 0>>)}
AlphaValues == {NoneV} \cup {Num(q) : q \in 0..Scale}

ColorArgs ==
    LET Choice(k, vals) == {EmptyKw} \cup {Put(EmptyKw, k, v) : v \in vals}
    IN  {Update(Update(a, b), o) :
            a \in Choice("color", ColorValues),
            b \in Choice("alpha", AlphaValues),
            o \in Choice("linewidth", {Whole(2)})}

InitColor ==
    /\ penkw = EmptyKw
    /\ rcParams = rcDefault
    /\ \E kw \in ColorArgs : last = [Idle EXCEPT !.op = "args", !.kw = kw]

CallColorTranslator ==
    /\ last.op = "args"
    /\ last' = [last EXCEPT !.op = "color_translator", !.val = color_translator(last.kw)]
    /\ UNCHANGED <<penkw, rcParams>>

NextColor == CallColorTranslator

SpecColor == InitColor /\ [][NextColor]_vars

\* ------------------------------------------------ symbol_translator alone

\* The markers of the table, strings that are not in it, a number, a tuple
\* and a list of vertices.
MarkerValues ==
    {NoneV, Str("None"), Str("none")}
        \cup {Str(m) : m \in {".", ",", "x", "+", "*", "o", "v", "^", ">", "<",
                               "d", "s", "p", "h", "_", "|"}}
        \cup {Str(""), Str(" "), Str("D"), Str("zz"), Str("star"), Str("t1"), Str("NONE")}
        \cup {Whole(4), Tup(<<3, 0, 0>>), ListV(0)}

SymbolArgs ==
    LET Choice(k, vals) == {EmptyKw} \cup {Put(EmptyKw, k, v) : v \in vals}
    IN  {Update(Update(a, b), o) :
            a \in Choice("marker", MarkerValues),
            b \in Choice("color", {Str("r")}),
            o \in Choice("markersize", {Whole(8)})}

InitSymbol ==
    /\ penkw = EmptyKw
    /\ rcParams = rcDefault
    /\ \E kw \in SymbolArgs : last = [Idle EXCEPT !.op = "args", !.kw = kw]

CallSymbolTranslator ==
    /\ last.op = "args"
    /\ last' = [last EXCEPT !.op = "symbol_translator",
                            !.raised = symbol_translator_raises(last.kw),
                            !.val = IF symbol_translator_raises(last.kw) THEN NoneV
                                    ELSE symbol_translator(last.kw)]
    /\ UNCHANGED <<penkw, rcParams>>

NextSymbol == CallSymbolTranslator

SpecSymbol == InitSymbol /\ [][NextSymbol]_vars

\* ------------------------------------------------------------ dealias alone

AliasKeys == UNION {SeqRange(alias_lists[i][2]) : i \in 1..Len(alias_lists)}
PrimaryKeys == {alias_lists[i][1] : i \in 1..Len(alias_lists)}

DealiasValues(k) == {NoneV, Whole(1)}
DealiasArgs ==
    KwUpTo(AliasKeys \cup PrimaryKeys \cup {"markeredgewidth", "zorder"}, DealiasValues,
           MaxAliasKeys)

InitDealias ==
    /\ penkw = EmptyKw
    /\ rcParams = rcDefault
    /\ \E kw \in DealiasArgs : last = [Idle EXCEPT !.op = "args", !.kw = kw]

\* dealias(**kw): kws is a dict of its own, returned after the loop
CallDealias ==
    /\ last.op = "args"
    /\ last' = [last EXCEPT !.op = "dealias", !.out = dealias(last.kw), !.caller = last.kw,
                            !.retobj = "kws"]
    /\ UNCHANGED <<penkw, rcParams>>

NextDealias == CallDealias

SpecDealias == InitDealias /\ [][NextDealias]_vars

\* --------------------------------------------- defaults_from_rcparams alone

\* rcParams with any of the five parameters taken out.
RcStates == {[param \in present |-> rcDefault[param]] : present \in SUBSET DOMAIN rcDefault}

RcArgs ==
    KwUpTo({"linewidth", "marker", "markeredgewidth", "markersize", "linestyle", "zorder"},
           PlotValues, MaxKeys)

InitRc ==
    /\ penkw = EmptyKw
    /\ rcParams \in RcStates
    /\ \E kw \in RcArgs : last = [Idle EXCEPT !.op = "args", !.kw = kw]

\* defaults_from_rcparams(plotkw): plotkw is the caller's dict, filled in place
CallDefaultsFromRcparams ==
    /\ last.op = "args"
    /\ \E r \in {defaults_from_rcparams(last.kw, rcParams)} :
        last' = [last EXCEPT !.op = "defaults_from_rcparams", !.raised = r.raised,
                            !.out = IF r.raised THEN EmptyKw ELSE r.plotkw,
                            !.caller = r.plotkw, !.retobj = "caller"]
    /\ UNCHANGED <<penkw, rcParams>>

NextRc == CallDefaultsFromRcparams

SpecRc == InitRc /\ [][NextRc]_vars

\* ================================================================== claims

\* The colour and the alpha a call gives, None standing for a missing keyword too.
GivenColor(kw) == Get(kw, "color", NoneV)
GivenAlpha(kw) == Get(kw, "alpha", NoneV)
Blank == {Str(""), Str(" ")}
\* The channels of a colour on the 0..255 scale.
Channels255(v) == [i \in 1..4 |-> to_rgba(v)[i] * Full]

\* A keyword that is not given.
Absent == [t |-> "absent", n |-> 0, s |-> "", c |-> <<>>]
\* The value a call gives keyword k, under its own name or under its alias.
Keyword(kw, k, alias) ==
    IF k \in DOMAIN kw THEN kw[k] ELSE IF alias \in DOMAIN kw THEN kw[alias] ELSE Absent
\* The same, the global style parameter standing in for a keyword not given.
KeywordOrRc(kw, k, alias, param) ==
    IF Keyword(kw, k, alias) = Absent THEN rcParams[param] ELSE Keyword(kw, k, alias)
OrNone(v) == IF v = Absent THEN NoneV ELSE v

\* The marker of a call, and whether it resolves to a symbol.
MarkerOf(kw) == KeywordOrRc(kw, "marker", "marker", "lines.marker")
Resolved(kw) == MarkerOf(kw) \notin {NoneV, Str("None"), Str("none")}
\* The colour the Color Translator gives for a colour and an alpha.
Translated(color, alpha) ==
    color_translator([x \in {"color", "alpha"} |-> IF x = "color" THEN color ELSE alpha])
\* Equal values; a deep copy of a list is equal to the list.
SameValue(a, b) == IF a.t = "list" THEN b.t = "list" /\ a.s = b.s ELSE a = b

SymbolKeys == {"symbol", "symbolSize", "symbolPen", "symbolBrush"}

\* C1: plotkw_translator returns, after any earlier calls of plotkw_translator,
\* setup_pen_kw and symbol_edge_setup, what it returns as the first call of a
\* fresh process (where the dict of setup_pen_kw's default argument is empty)
\* under the same global style parameters.
C1_SameAsFresh ==
    last.op = "plotkw_translator" =>
        last.out = plotkw_translator(last.kw, rcParams, EmptyKw).out

\* C2: setup_pen_kw called without penkw returns None exactly when linewidth is
\* missing or None and color_translator and style_translator both give None
\* for the keywords of this call; it returns a pen otherwise.
C2_NoPenWhenNothingGiven ==
    last.op = "setup_pen_kw" =>
        LET nothing == /\ Get(last.kw, "linewidth", NoneV) = NoneV
                       /\ color_translator(last.kw) = NoneV
                       /\ style_translator(last.kw) = NoneV
        IN  (last.val = NoneV) <=> nothing

\* C3: when plotkw_translator resolves a symbol and an edge colour, a
\* markeredgewidth or an alpha is set, symbolPen is the pen of exactly these:
\* its colour the edge colour (markeredgecolor if given, else the main color for
\* the markers x + . , | _, else none) with alpha applied, its width the
\* markeredgewidth, and no width, colour or style of the line or of earlier calls.
C3_SymbolPenIsEdgePen ==
    (last.op = "plotkw_translator" /\ Resolved(last.kw)) =>
        LET mec == Keyword(last.kw, "markeredgecolor", "mec")
            edge == IF mec # Absent THEN mec
                    ELSE IF MarkerOf(last.kw) \in StrokeMarkers
                         THEN OrNone(Keyword(last.kw, "color", "c"))
                         ELSE NoneV
            mew == KeywordOrRc(last.kw, "markeredgewidth", "mew", "lines.markeredgewidth")
            alpha == OrNone(Keyword(last.kw, "alpha", "alpha"))
            colour == Translated(edge, alpha)
        IN  (edge # NoneV \/ mew # NoneV \/ alpha # NoneV) =>
                /\ "symbolPen" \in DOMAIN last.out
                /\ last.out["symbolPen"] =
                       [t |-> "pen",
                        n |-> IF mew # NoneV THEN mew.n ELSE -1,
                        s |-> "",
                        c |-> IF colour # NoneV THEN colour.c ELSE <<>>]

\* C4: when plotkw_translator resolves a symbol, the output holds symbolBrush
\* exactly when the Color Translator gives a colour for the color and alpha of
\* the call, and the brush has that colour (with color and alpha set, alpha on
\* the 0..255 scale; with alpha alone, black at that alpha).
C4_BrushIsTranslatedColor ==
    (last.op = "plotkw_translator" /\ Resolved(last.kw)) =>
        LET colour == Translated(OrNone(Keyword(last.kw, "color", "c")),
                                 OrNone(Keyword(last.kw, "alpha", "alpha")))
        IN  /\ ("symbolBrush" \in DOMAIN last.out) <=> (colour # NoneV)
            /\ colour # NoneV =>
                  last.out["symbolBrush"] = [t |-> "brush", n |-> 0, s |-> "", c |-> colour.c]

\* C6 as stated: color_translator follows the decision table, in this order:
\* color '' or ' ' gives (0,0,0,0) whatever alpha is; color and alpha both set
\* give the colour's RGB at 0..255 followed by alpha*255; color alone gives the
\* colour's own RGBA at 0..255; alpha alone gives black at exactly alpha*255;
\* neither gives None, and None is given in no other row.
C6_TableExactAlpha ==
    last.op = "color_translator" =>
        LET color == GivenColor(last.kw)
            alpha == GivenAlpha(last.kw)
        IN  IF color \in Blank THEN last.val = Rgba(<<0, 0, 0, 0>>)
            ELSE IF color # NoneV /\ alpha # NoneV
                 THEN last.val = Rgba([Channels255(color) EXCEPT ![4] = alpha.n * Full])
            ELSE IF color # NoneV THEN last.val = Rgba(Channels255(color))
            ELSE IF alpha # NoneV THEN last.val = Rgba(<<0, 0, 0, alpha.n * Full>>)
            ELSE last.val = NoneV

\* C6 as amended: the same table, except that alpha alone gives black at
\* alpha*255 rounded to a nearest whole number (int(round(alpha * 255))).
C6_TableRoundedAlpha ==
    last.op = "color_translator" =>
        LET color == GivenColor(last.kw)
            alpha == GivenAlpha(last.kw)
        IN  IF color \in Blank THEN last.val = Rgba(<<0, 0, 0, 0>>)
            ELSE IF color # NoneV /\ alpha # NoneV
                 THEN last.val = Rgba([Channels255(color) EXCEPT ![4] = alpha.n * Full])
            ELSE IF color # NoneV THEN last.val = Rgba(Channels255(color))
            ELSE IF alpha # NoneV
                 THEN /\ last.val.t = "rgba"
                      /\ SubSeq(last.val.c, 1, 3) = <<0, 0, 0>>
                      /\ Len(last.val.c) = 4
                      /\ last.val.c[4] % Scale = 0
                      /\ 2 * (last.val.c[4] - alpha.n * Full) <= Scale
                      /\ 2 * (alpha.n * Full - last.val.c[4]) <= Scale
            ELSE last.val = NoneV

\* C6 witness: alpha alone, where alpha*255 is no whole number and the black
\* returned holds the rounded value.
C6_Witness ==
    /\ last.op = "color_translator"
    /\ GivenColor(last.kw) = NoneV
    /\ GivenAlpha(last.kw) # NoneV
    /\ (GivenAlpha(last.kw).n * Full) % Scale # 0
    /\ last.val.t = "rgba"

\* C5: dealias, for every primary keyword with registered aliases: with the
\* primary missing and an alias there, the result holds the primary with the
\* value of the first alias there; with the primary there, its value is kept;
\* either way no alias is left in the result; and every keyword that is neither
\* a primary nor an alias is returned with its value.
C5_Dealias ==
    last.op = "dealias" =>
        /\ \A i \in 1..Len(alias_lists) :
              LET primary == alias_lists[i][1]
                  aliases == alias_lists[i][2]
                  there == {j \in 1..Len(aliases) : aliases[j] \in DOMAIN last.kw}
              IN  /\ (primary \notin DOMAIN last.kw /\ there # {}) =>
                        /\ primary \in DOMAIN last.out
                        /\ \E j \in there :
                              /\ \A l \in there : j <= l
                              /\ last.out[primary] = last.kw[aliases[j]]
                  /\ primary \in DOMAIN last.kw =>
                        /\ primary \in DOMAIN last.out
                        /\ last.out[primary] = last.kw[primary]
                  /\ \A j \in 1..Len(aliases) : aliases[j] \notin DOMAIN last.out
        /\ \A k \in DOMAIN last.kw \ (AliasKeys \cup PrimaryKeys) :
              k \in DOMAIN last.out /\ last.out[k] = last.kw[k]

\* C5 witness: a primary and its alias are both given, with different values,
\* beside nothing else, and the result is the primary alone with its own value.
C5_Witness ==
    /\ last.op = "dealias"
    /\ DOMAIN last.kw = {"linewidth", "lw"}
    /\ last.kw["lw"] # last.kw["linewidth"]
    /\ DOMAIN last.out = {"linewidth"}
    /\ last.out["linewidth"] = last.kw["linewidth"]

C8_PassThrough ==
    last.op = "plotkw_translator" =>
        /\ DOMAIN last.out \cap {"color", "alpha", "linewidth", "marker", "linestyle"} = {}
        /\ \A k \in DOMAIN last.kw \
                    (AliasKeys \cup {"color", "alpha", "linewidth", "marker", "linestyle"}
                     \cup {"markersize", "pg_label", "label"}
                     \cup {"markeredgecolor", "markeredgewidth"}) :
              /\ k \in DOMAIN last.out
              /\ CASE k = "name" ->
                        last.out[k] = IF "label" \in DOMAIN last.kw
                                      THEN last.kw["label"] ELSE last.kw[k]
                   [] k = "symbolSize" ->
                        last.out[k] = IF Resolved(last.kw)
                                      THEN KeywordOrRc(last.kw, "markersize", "ms",
                                                       "lines.markersize")
                                      ELSE last.kw[k]
                   [] k = "symbol" ->
                        IF Resolved(last.kw)
                        THEN last.out[k] = symbol_translator(
                                               [x \in {"marker"} |-> MarkerOf(last.kw)])
                        ELSE last.out[k] = last.kw[k]
                   [] k = "pen" -> last.out[k] = last.kw[k] \/ last.out[k].t = "pen"
                   [] OTHER -> SameValue(last.out[k], last.kw[k])

\* C8 witness: name and label are both given; the name built from label stands.
C8_Witness ==
    /\ last.op = "plotkw_translator"
    /\ DOMAIN last.kw = {"name", "label"}
    /\ last.out["name"] = last.kw["label"]
    /\ last.out["name"] # last.kw["name"]
    /\ "label" \notin DOMAIN last.out

\* C9: when the marker of a plotkw_translator call resolves to no symbol and
\* the call gives no symbol keyword of the renderer itself, the output holds
\* none of symbol, symbolSize, symbolPen, symbolBrush, however markersize came
\* to be set; and for such calls symbolSize is in the output only with symbol.
C9_NoSymbolNoSize ==
    (last.op = "plotkw_translator" /\ DOMAIN last.kw \cap SymbolKeys = {}) =>
        /\ ~Resolved(last.kw) => DOMAIN last.out \cap SymbolKeys = {}
        /\ "symbolSize" \in DOMAIN last.out => "symbol" \in DOMAIN last.out

\* C9 witness: markersize is given by its alias, the marker is left to the
\* global default 'None', and the output holds no symbol keyword.
C9_Witness ==
    /\ last.op = "plotkw_translator"
    /\ DOMAIN last.kw = {"ms"}
    /\ rcParams["lines.marker"] = Str("None")
    /\ DOMAIN last.out \cap SymbolKeys = {}
    /\ "pen" \in DOMAIN last.out

\* C10: defaults_from_rcparams, for each of linewidth, marker, markeredgewidth,
\* markersize, linestyle: a keyword given keeps its value; one not given takes
\* the global parameter when there is one, and stays out, no error raised, when
\* there is none; every other keyword is unchanged.
C10_FillOrLeave ==
    last.op = "defaults_from_rcparams" =>
        /\ ~last.raised
        /\ \A i \in 1..Len(simples) :
              LET k == param_key(simples[i])
              IN  IF k \in DOMAIN last.kw
                  THEN k \in DOMAIN last.out /\ last.out[k] = last.kw[k]
                  ELSE IF simples[i] \in DOMAIN rcParams
                       THEN k \in DOMAIN last.out /\ last.out[k] = rcParams[simples[i]]
                       ELSE k \notin DOMAIN last.out
        /\ \A k \in DOMAIN last.kw : k \in DOMAIN last.out /\ last.out[k] = last.kw[k]

\* The symbol the table of the Marker/Symbol Translator fixes for a marker.
TableMarkers == {".", ",", "x", "+", "*", "o", "v", "^", ">", "<", "d", "s", "p", "h", "_", "|"}
FixedSymbol(m) ==
    CASE m = "*" -> "star"
      [] m = "v" -> "t"
      [] m = "^" -> "t1"
      [] m = ">" -> "t2"
      [] m = "<" -> "t3"
      [] OTHER -> m
NoSymbolMarkers == {NoneV, Str("None"), Str("none")}
\* What the claim has symbol_translator return for a marker.
SymbolFor(marker) ==
    IF marker \in NoSymbolMarkers THEN NoneV
    ELSE IF marker.t = "str" /\ marker.s \in TableMarkers THEN Str(FixedSymbol(marker.s))
    ELSE Str("o")

AliasPairs ==
    {<<"lw", "linewidth">>, <<"ls", "linestyle">>, <<"mew", "markeredgewidth">>,
     <<"mec", "markeredgecolor">>, <<"ms", "markersize">>, <<"c", "color">>}
RendererKeys == {"pen", "symbol", "symbolPen", "symbolBrush", "symbolSize", "name", "label"}

\* C12: plotkw_translator given an alias alone (lw, ls, mew, mec, ms, c) with a
\* value returns the mapping it returns, from the same starting state, given
\* the canonical keyword alone with that value; and the output holds neither
\* the alias nor any other keyword that is not the renderer's.
C12_AliasAsCanonical ==
    last.op = "plotkw_translator" =>
        \A pair \in AliasPairs :
            DOMAIN last.kw = {pair[1]} =>
                /\ ~last.raised
                /\ last.out = plotkw_translator([k \in {pair[2]} |-> last.kw[pair[1]]],
                                                rcParams, last.before).out
                /\ DOMAIN last.out \subseteq RendererKeys

====
